---------------------------- MODULE Spec2Model ----------------------------
(***************************************************************************)
(* Clover terminal integration: the request dispatcher (_api_request),     *)
(* the connectivity state machine of clover.terminal, the OAuth callback   *)
(* and the clover.transaction.log audit trail.                             *)
(*                                                                         *)
(* One clover.terminal record is modelled.  Every handler is one atomic    *)
(* action; the answers of the remote API are inputs drawn from small sets. *)
(* Python's False/None/'' of a Char or Text field is the empty string "",  *)
(* an unset Datetime is 0, an absent JSON key is Missing.                  *)
(***************************************************************************)
EXTENDS Integers, Sequences, FiniteSets, TLC

VARIABLES
    terminal,   \* the clover.terminal record (its stored fields)
    log,        \* clover.transaction.log rows, in creation order
    now,        \* the clock read by fields.Datetime.now()
    last,       \* the last handler run: name, record before it, outcome
    exists,     \* the clover.terminal record has not been deleted
    callers     \* the calls of action_test_connection that are under way

vars == <<terminal, log, now, last, exists, callers>>

---------------------------------------------------------------------------
(* Bounds of the model *)

\* rows the audit log may hold before dispatching handlers stop being run
MaxLog == 2
\* largest clock value; a handler that reads the clock runs only before it
MaxTime == 2

---------------------------------------------------------------------------
(* Values *)

Missing == "<missing>"      \* dict.get() of a key the JSON body lacks
Absent  == "<absent>"       \* a header that is not sent

\* The UserError messages of the source (str(exc) is what last_error stores)
MsgSerialNotSet  == "Device serial not set."
MsgTimeout       == "Clover request timed out. Check device/network."
MsgUnreachable   == "Cannot reach Clover API. Check network."
MsgUnknown       == "Clover error: exc"
MsgNoDevice      == "No device with serial found for this merchant."
MsgNoToken       == "No API token. Click Authorize first."
MsgNoTokenPing   == "No API token. Run Authorize first."
MsgTestFirst     == "Test the connection first."

\* 'Clover API %(status)s: %(msg)s'
ApiErrorMsg(status_code) ==
    CASE status_code = 204 -> "Clover API 204: msg"
      [] status_code = 404 -> "Clover API 404: msg"
      [] OTHER             -> "Clover API ???: msg"

States == {"draft", "testing", "active", "inactive", "error"}

EpMerchant == "/v3/merchants/M1"
EpDevices  == "/v3/merchants/M1/devices"
EpPing     == "/connect/v1/device/ping"
EpReset    == "/connect/v1/device/reset"
EpOAuth    == "/oauth/token"

---------------------------------------------------------------------------
(* The remote side: what one HTTP exchange can produce *)

EmptyBody == [name |-> Missing, elements |-> <<>>, access_token |-> Missing]

Dev1  == [serial |-> "S1", id |-> "dev-1",  productName |-> Missing,  model |-> "Flex"]
Dev1b == [serial |-> "S1", id |-> "dev-1b", productName |-> "Flex 4", model |-> "Flex"]
Dev2  == [serial |-> "S2", id |-> "dev-2",  productName |-> Missing,  model |-> Missing]

DeviceLists == { <<>>, <<Dev2>>, <<Dev2, Dev1>>, <<Dev1b, Dev1>> }

MerchantBodies == { [EmptyBody EXCEPT !.name = "Acme"], EmptyBody }
DeviceBodies   == { [EmptyBody EXCEPT !.elements = l] : l \in DeviceLists }
PingBodies     == { EmptyBody }

Failure(kind) == [kind |-> kind, status_code |-> 0, body |-> EmptyBody]

\* requests.request() either returns a response or raises
Responses(bodies) ==
    { [kind |-> "response", status_code |-> s, body |-> b] :
          s \in {200, 201}, b \in bodies }
    \cup { [kind |-> "response", status_code |-> s, body |-> EmptyBody] :
          s \in {204, 404} }
    \cup { Failure("Timeout"), Failure("ConnectionError"), Failure("Exception") }

NoResponse == Failure("unused")

---------------------------------------------------------------------------
(* Headers *)

NoHeaders == [Authorization |-> <<>>, ContentType |-> Absent, Accept |-> Absent,
              XCloverDeviceId |-> Absent, XPOSId |-> Absent,
              IdempotencyKey |-> Absent]

\* f'Bearer {self.api_token}'
Bearer(api_token) == <<"Bearer", api_token>>

\* _get_headers: REST v3 (merchant / device management)
get_headers(t) ==
    [NoHeaders EXCEPT !.Authorization = Bearer(t.api_token),
                      !.ContentType = "application/json",
                      !.Accept = "application/json"]

\* _get_connect_headers: Connect v1 (device control).  Result: the exception
\* raised ("" when none) and the headers.
get_connect_headers(t, idempotency_key) ==
    IF t.device_serial = ""
    THEN [exc |-> MsgSerialNotSet, headers |-> NoHeaders]
    ELSE [exc |-> "",
          headers |->
            [NoHeaders EXCEPT !.Authorization = Bearer(t.api_token),
                              !.ContentType = "application/json",
                              !.Accept = "application/json",
                              !.XCloverDeviceId = t.device_serial,
                              !.XPOSId = t.raid,
                              !.IdempotencyKey =
                                  IF idempotency_key # "" THEN idempotency_key
                                  ELSE Absent]]

---------------------------------------------------------------------------
(* Core API caller *)

\* self.id of the one record, and a Many2one that refers to nothing
TerminalId == "terminal-1"
Null == "<null>"

\* json.dumps(payload) if payload else '': no handler passes a payload
NoPayload == [client_id |-> Missing, code |-> <<>>]

\* one clover.transaction.log row (log_vals); the response is filled in by
\* the caller once there is one
LogRow(endpoint, method, status, http_status, error_message) ==
    [terminal_id |-> TerminalId, endpoint |-> endpoint,
     http_method |-> method, request_payload |-> NoPayload,
     response_payload |-> EmptyBody, status |-> status,
     http_status |-> http_status, error_message |-> error_message]

\* what a call of _api_request does: the exception it raises ("" when it
\* returns), the body it returns, the rows it creates and the HTTP requests
\* it sends
Outcome(exc, body, rows, calls) ==
    [exc |-> exc, body |-> body, rows |-> rows, calls |-> calls]

\* _api_request taking every 2xx status for a success
api_request_Any2xx(t, method, endpoint, connect, idempotency_key, resp) ==
    LET h == IF connect THEN get_connect_headers(t, idempotency_key)
             ELSE [exc |-> "", headers |-> get_headers(t)]
        req == [endpoint |-> endpoint, http_method |-> method,
                headers |-> h.headers]
    IN  IF h.exc # ""
        THEN Outcome(h.exc, EmptyBody, <<>>, <<>>)
        ELSE CASE resp.kind = "response" /\ resp.status_code < 300 ->
                    Outcome("", resp.body,
                            <<[LogRow(endpoint, method, "success",
                                      resp.status_code, "")
                                 EXCEPT !.response_payload = resp.body]>>,
                            <<req>>)
               [] resp.kind = "response" /\ resp.status_code >= 300 ->
                    Outcome(ApiErrorMsg(resp.status_code), EmptyBody,
                            <<[LogRow(endpoint, method, "error",
                                      resp.status_code, "msg")
                                 EXCEPT !.response_payload = resp.body]>>,
                            <<req>>)
               [] resp.kind = "Timeout" ->
                    Outcome(MsgTimeout, EmptyBody,
                            <<LogRow(endpoint, method, "timeout", 0,
                                     "Request timed out")>>,
                            <<req>>)
               [] resp.kind = "ConnectionError" ->
                    Outcome(MsgUnreachable, EmptyBody,
                            <<LogRow(endpoint, method, "error", 0,
                                     "Connection refused")>>,
                            <<req>>)
               [] OTHER ->
                    Outcome(MsgUnknown, EmptyBody,
                            <<LogRow(endpoint, method, "error", 0, "exc")>>,
                            <<req>>)

\* _api_request(method, endpoint, connect=..., idempotency_key=...) on
\* terminal record t, the remote side answering resp
api_request(t, method, endpoint, connect, idempotency_key, resp) ==
    LET h == IF connect THEN get_connect_headers(t, idempotency_key)
             ELSE [exc |-> "", headers |-> get_headers(t)]
        req == [endpoint |-> endpoint, http_method |-> method,
                headers |-> h.headers]
    IN  IF h.exc # ""
        THEN \* raised before log_vals exists and before the try block
             Outcome(h.exc, EmptyBody, <<>>, <<>>)
        ELSE CASE resp.kind = "response" /\ resp.status_code \in {200, 201} ->
                    Outcome("", resp.body,
                            <<[LogRow(endpoint, method, "success",
                                      resp.status_code, "")
                                 EXCEPT !.response_payload = resp.body]>>,
                            <<req>>)
               [] resp.kind = "response" /\ resp.status_code \notin {200, 201} ->
                    Outcome(ApiErrorMsg(resp.status_code), EmptyBody,
                            <<[LogRow(endpoint, method, "error",
                                      resp.status_code, "msg")
                                 EXCEPT !.response_payload = resp.body]>>,
                            <<req>>)
               [] resp.kind = "Timeout" ->
                    Outcome(MsgTimeout, EmptyBody,
                            <<LogRow(endpoint, method, "timeout", 0,
                                     "Request timed out")>>,
                            <<req>>)
               [] resp.kind = "ConnectionError" ->
                    Outcome(MsgUnreachable, EmptyBody,
                            <<LogRow(endpoint, method, "error", 0,
                                     "Connection refused")>>,
                            <<req>>)
               [] OTHER ->
                    Outcome(MsgUnknown, EmptyBody,
                            <<LogRow(endpoint, method, "error", 0, "exc")>>,
                            <<req>>)

---------------------------------------------------------------------------
(* Handlers of clover.terminal.  Each is an operator from the record before *)
(* the call (and the remote answers) to what the call does.                 *)

\* what a handler run does: the record after it, the exception it raises
\* ("" when it returns), its return value, the audit rows it creates and the
\* HTTP requests it sends
Run(t, exc, ret, rows, calls) ==
    [t |-> t, exc |-> exc, ret |-> ret, rows |-> rows, calls |-> calls]

\* the scan of the device listing found nothing
NoDevice == [serial |-> Missing, id |-> Missing, productName |-> Missing,
             model |-> Missing]

\* the scan of the listing keeping the last element with the serial
RECURSIVE FirstMatch_LastWins(_, _)
FirstMatch_LastWins(elements, serial) ==
    IF elements = <<>> THEN NoDevice
    ELSE LET rest == FirstMatch_LastWins(Tail(elements), serial)
         IN  IF rest # NoDevice THEN rest
             ELSE IF Head(elements).serial = serial THEN Head(elements)
             ELSE NoDevice

\* for dev in elements: if dev.get('serial') == serial: return dev
RECURSIVE FirstMatch(_, _)
FirstMatch(elements, serial) ==
    IF elements = <<>> THEN NoDevice
    ELSE IF Head(elements).serial = serial THEN Head(elements)
    ELSE FirstMatch(Tail(elements), serial)

\* dict.get(key) stored into a Char field: None is stored as empty
Stored(v) == IF v = Missing THEN "" ELSE v

\* _resolve_device_by_serial: [exc, dev, rows, calls]
resolve_device_by_serial(t, resp) ==
    LET devices == api_request(t, "GET", EpDevices, FALSE, "", resp)
        dev == FirstMatch(devices.body.elements, t.device_serial)
    IN  IF devices.exc # ""
        THEN [exc |-> devices.exc, dev |-> NoDevice,
              rows |-> devices.rows, calls |-> devices.calls]
        ELSE IF dev = NoDevice
        THEN [exc |-> MsgNoDevice, dev |-> NoDevice,
              rows |-> devices.rows, calls |-> devices.calls]
        ELSE [exc |-> "", dev |-> dev,
              rows |-> devices.rows, calls |-> devices.calls]

\* ping_device_connect marking the record as failed when the ping fails
ping_device_connect_MarksError(t, clock, resp) ==
    IF t.api_token = ""
    THEN Run(t, MsgNoTokenPing, "raised", <<>>, <<>>)
    ELSE LET result == api_request(t, "POST", EpPing, TRUE, "", resp)
         IN  IF result.exc # ""
             THEN Run([t EXCEPT !.state = "error",
                                !.last_error = result.exc],
                      result.exc, "raised", result.rows, result.calls)
             ELSE Run([t EXCEPT !.last_ping = clock], "", "body",
                      result.rows, result.calls)

\* ping_device_connect
ping_device_connect(t, clock, resp) ==
    IF t.api_token = ""
    THEN Run(t, MsgNoTokenPing, "raised", <<>>, <<>>)
    ELSE LET result == api_request(t, "POST", EpPing, TRUE, "", resp)
         IN  IF result.exc # ""
             THEN Run(t, result.exc, "raised", result.rows, result.calls)
             ELSE Run([t EXCEPT !.last_ping = clock], "", "body",
                      result.rows, result.calls)

\* reset_device
reset_device(t, resp) ==
    LET result == api_request(t, "PUT", EpReset, TRUE, "", resp)
    IN  Run(t, result.exc, IF result.exc = "" THEN "body" ELSE "raised",
            result.rows, result.calls)

\* check_device_online
check_device_online(t, clock, resp) ==
    IF t.device_serial = "" \/ t.api_token = ""
    THEN Run(t, "", "False", <<>>, <<>>)
    ELSE LET p == ping_device_connect(t, clock, resp)
         IN  Run(p.t, "", IF p.exc = "" THEN "True" ELSE "False",
                 p.rows, p.calls)

\* TestFailed with the write of state lost: only last_error is stored
TestFailed_KeepsState(t, exc, rows, calls) ==
    Run([t EXCEPT !.last_error = exc], exc, "raised", rows, calls)

\* TestFailed forgetting the device and the merchant of an earlier test
TestFailed_ForgetsDevice(t, exc, rows, calls) ==
    Run([t EXCEPT !.state = "error", !.last_error = exc,
                  !.clover_device_id = "", !.merchant_name = ""],
        exc, "raised", rows, calls)

\* except UserError as exc: self.write({'state': 'error', ...}); raise
TestFailed(t, exc, rows, calls) ==
    Run([t EXCEPT !.state = "error", !.last_error = exc],
        exc, "raised", rows, calls)

\* TestVerified with the ping made fatal: a failed ping raises out of the
\* handler and the record goes to error
TestVerified_PingFatal(t1, clock, r3, rows, calls) ==
    LET ping == ping_device_connect(t1, clock, r3)
    IN  IF ping.exc # ""
        THEN Run([t1 EXCEPT !.state = "error", !.last_error = ping.exc],
                 ping.exc, "raised", rows \o ping.rows, calls \o ping.calls)
        ELSE Run([ping.t EXCEPT !.state = "testing", !.last_error = ""],
                 "", "Connection OK", rows \o ping.rows, calls \o ping.calls)

\* TestVerified leaving an active record active
TestVerified_KeepsActive(t1, clock, r3, rows, calls) ==
    LET ping == ping_device_connect(t1, clock, r3)
        ping_ok == ping.exc = ""
        t2 == [ping.t EXCEPT !.state = IF @ = "active" THEN @ ELSE "testing",
                             !.last_error = IF ping_ok THEN "" ELSE ping.exc,
                             !.last_ping = IF ping_ok THEN clock ELSE @]
    IN  Run(t2, "", IF ping_ok THEN "Connection OK"
                    ELSE "API OK - Device Offline",
            rows \o ping.rows, calls \o ping.calls)

\* action_test_connection, step 3 and the final write: the record t1 has
\* the merchant and the device stored, rows and calls are those of steps 1-2
TestVerified(t1, clock, r3, rows, calls) ==
    LET ping == ping_device_connect(t1, clock, r3)
        ping_ok == ping.exc = ""
        t2 == [ping.t EXCEPT !.state = "testing",
                             !.last_error = IF ping_ok THEN "" ELSE ping.exc,
                             !.last_ping = IF ping_ok THEN clock ELSE @]
    IN  Run(t2, "", IF ping_ok THEN "Connection OK"
                    ELSE "API OK - Device Offline",
            rows \o ping.rows, calls \o ping.calls)

\* the try block going on to the device listing after a failed merchant
\* lookup, and failing with the lookup's error afterwards
TestSteps_ListsAnyway(t, clock, r1, r2, r3) ==
    LET merchant == api_request(t, "GET", EpMerchant, FALSE, "", r1)
        merchant_name == IF merchant.body.name = Missing THEN "?"
                         ELSE merchant.body.name
        device == resolve_device_by_serial(t, r2)
        device_model == IF device.dev.productName # Missing
                        THEN device.dev.productName
                        ELSE Stored(device.dev.model)
        t1 == [t EXCEPT !.merchant_name = merchant_name,
                        !.clover_device_id = Stored(device.dev.id),
                        !.device_model = device_model]
    IN  IF merchant.exc # ""
        THEN TestFailed(t, merchant.exc, merchant.rows \o device.rows,
                        merchant.calls \o device.calls)
        ELSE IF device.exc # ""
        THEN TestFailed(t, device.exc, merchant.rows \o device.rows,
                        merchant.calls \o device.calls)
        ELSE TestVerified(t1, clock, r3, merchant.rows \o device.rows,
                          merchant.calls \o device.calls)

\* action_test_connection, the try block; r1, r2, r3 answer the merchant
\* lookup, the device listing and the ping
TestSteps(t, clock, r1, r2, r3) ==
    LET merchant == api_request(t, "GET", EpMerchant, FALSE, "", r1)
        merchant_name == IF merchant.body.name = Missing THEN "?"
                         ELSE merchant.body.name
        device == resolve_device_by_serial(t, r2)
        device_model == IF device.dev.productName # Missing
                        THEN device.dev.productName
                        ELSE Stored(device.dev.model)
        t1 == [t EXCEPT !.merchant_name = merchant_name,
                        !.clover_device_id = Stored(device.dev.id),
                        !.device_model = device_model]
    IN  IF merchant.exc # ""
        THEN TestFailed(t, merchant.exc, merchant.rows, merchant.calls)
        ELSE IF device.exc # ""
        THEN TestFailed(t, device.exc, merchant.rows \o device.rows,
                        merchant.calls \o device.calls)
        ELSE TestVerified(t1, clock, r3, merchant.rows \o device.rows,
                          merchant.calls \o device.calls)

\* action_test_connection without its token check
action_test_connection_NoTokenCheck(t, clock, r1, r2, r3) ==
    TestSteps(t, clock, r1, r2, r3)

\* action_test_connection
action_test_connection(t, clock, r1, r2, r3) ==
    IF t.api_token = ""
    THEN Run(t, MsgNoToken, "raised", <<>>, <<>>)
    ELSE TestSteps(t, clock, r1, r2, r3)

\* action_activate with 'draft' let through the state check
action_activate_FromDraft(t) ==
    IF t.state \notin {"draft", "testing", "error", "inactive"}
    THEN Run(t, MsgTestFirst, "raised", <<>>, <<>>)
    ELSE Run([t EXCEPT !.state = "active", !.last_error = ""],
             "", "None", <<>>, <<>>)

\* action_activate leaving the stored error in place
action_activate_KeepsError(t) ==
    IF t.state \notin {"testing", "error", "inactive"}
    THEN Run(t, MsgTestFirst, "raised", <<>>, <<>>)
    ELSE Run([t EXCEPT !.state = "active"], "", "None", <<>>, <<>>)

\* action_activate
action_activate(t) ==
    IF t.state \notin {"testing", "error", "inactive"}
    THEN Run(t, MsgTestFirst, "raised", <<>>, <<>>)
    ELSE Run([t EXCEPT !.state = "active", !.last_error = ""],
             "", "None", <<>>, <<>>)

\* action_deactivate guarded: it acts on an active record only
action_deactivate_Guarded(t) ==
    IF t.state # "active"
    THEN Run(t, "Only an active terminal can be deactivated.", "raised",
             <<>>, <<>>)
    ELSE Run([t EXCEPT !.state = "inactive"], "", "None", <<>>, <<>>)

\* action_deactivate
action_deactivate(t) ==
    Run([t EXCEPT !.state = "inactive"], "", "None", <<>>, <<>>)

\* action_reset_draft forgetting the resolved device as well
action_reset_draft_ForgetsDevice(t) ==
    Run([t EXCEPT !.state = "draft", !.last_error = "",
                  !.clover_device_id = ""], "", "None", <<>>, <<>>)

\* action_reset_draft dropping the access token as well
action_reset_draft_DropsToken(t) ==
    Run([t EXCEPT !.state = "draft", !.last_error = "", !.api_token = ""],
        "", "None", <<>>, <<>>)

\* action_reset_draft
action_reset_draft(t) ==
    Run([t EXCEPT !.state = "draft", !.last_error = ""], "", "None", <<>>, <<>>)

---------------------------------------------------------------------------
(* OAuth callback controller *)

\* the access_token values the token endpoint answers with; a stored record
\* may hold an older one ("tok1")
Tokens == {"tok2"}
OAuthBodies == { [EmptyBody EXCEPT !.access_token = a] : a \in Tokens }
               \cup { EmptyBody }
\* the authorization code is a string: a sequence of characters.  The
\* empty one, one shorter than the part the audit row keeps, one longer.
ShortCode == <<"a", "b">>
LongCode == <<"c", "o", "d", "e", "-", "1", "2", "3", "4">>
Codes == {<<>>, ShortCode, LongCode}

\* code[:8]
CodeKeep == 8
Truncated(code) ==
    SubSeq(code, 1, IF Len(code) < CodeKeep THEN Len(code) ELSE CodeKeep)

\* code[:8] + '...'
Ellipsis == <<".", ".", ".">>
LoggedCode(code) == Truncated(code) \o Ellipsis

\* json.dumps({'access_token': '***acquired***'})
Redacted == "***acquired***"

\* the row the callback creates once the token is stored
OAuthRow(t, code) ==
    [LogRow(EpOAuth, "POST", "success", 200, "") EXCEPT
        !.request_payload = [client_id |-> t.app_id,
                             code |-> LoggedCode(code)],
        !.response_payload = [EmptyBody EXCEPT !.access_token = Redacted]]
MerchantIds == {"", "M1", "M2"}

\* oauth_callback taking a 201 answer for a success too
oauth_callback_Accept201(t, code, merchant_id, resp) ==
    LET req == [endpoint |-> EpOAuth, http_method |-> "POST",
                headers |-> NoHeaders]
    IN  IF code = <<>> \/ merchant_id = ""
        THEN Run(t, "", "error: Missing code or merchant_id", <<>>, <<>>)
        ELSE IF merchant_id # t.merchant_id
        THEN Run(t, "", "error: No terminal found for merchant", <<>>, <<>>)
        ELSE IF resp.kind \in {"Timeout", "ConnectionError"}
        THEN Run(t, "", "error: exc", <<>>, <<req>>)
        ELSE IF resp.kind # "response"
        THEN Run(t, "exc", "raised", <<>>, <<req>>)
        ELSE IF resp.status_code \notin {200, 201}
        THEN Run(t, "", "error: Token exchange failed", <<>>, <<req>>)
        ELSE IF resp.body.access_token \in {Missing, ""}
        THEN Run(t, "", "error: No access_token in response", <<>>, <<req>>)
        ELSE Run([t EXCEPT !.api_token = resp.body.access_token], "",
                 "terminal form", <<OAuthRow(t, code)>>, <<req>>)

\* oauth_callback(code, merchant_id); resp answers the POST to /oauth/token.
\* ret is the redirect target.
oauth_callback(t, code, merchant_id, resp) ==
    LET req == [endpoint |-> EpOAuth, http_method |-> "POST",
                headers |-> NoHeaders]
    IN  IF code = <<>> \/ merchant_id = ""
        THEN Run(t, "", "error: Missing code or merchant_id", <<>>, <<>>)
        ELSE IF merchant_id # t.merchant_id
        THEN Run(t, "", "error: No terminal found for merchant", <<>>, <<>>)
        ELSE IF resp.kind \in {"Timeout", "ConnectionError"}
        THEN \* except requests.exceptions.RequestException
             Run(t, "", "error: exc", <<>>, <<req>>)
        ELSE IF resp.kind # "response"
        THEN \* any other exception leaves the controller
             Run(t, "exc", "raised", <<>>, <<req>>)
        ELSE IF resp.status_code # 200
        THEN Run(t, "", "error: Token exchange failed", <<>>, <<req>>)
        ELSE IF resp.body.access_token \in {Missing, ""}
        THEN Run(t, "", "error: No access_token in response", <<>>, <<req>>)
        ELSE Run([t EXCEPT !.api_token = resp.body.access_token], "",
                 "terminal form", <<OAuthRow(t, code)>>, <<req>>)

---------------------------------------------------------------------------
(* The state machine *)

\* two requests may run action_test_connection on the record at once; each
\* has its position in the handler and the handler's local variables:
\* merchant_name, device, the exception caught, ping_ok and ping_error
Callers == {"A", "B"}
Idle ==
    [pc |-> "idle", merchant_name |-> "", device |-> NoDevice, exc |-> "",
     ping_ok |-> FALSE, ping_error |-> ""]
NotCalling == [c \in Callers |-> Idle]

\* a record as create() leaves it: the configured fields are given, the
\* readonly ones are empty and state has its default
NewTerminal(device_serial) ==
    [merchant_id |-> "M1", device_serial |-> device_serial,
     clover_device_id |-> "", app_id |-> "app-1", app_secret |-> "secret-1",
     raid |-> "raid-1", api_token |-> "", state |-> "draft",
     last_ping |-> 0, last_error |-> "", merchant_name |-> "",
     device_model |-> ""]

\* device_serial is required, which rejects NULL and not the empty string
Serials == {"", "S1"}

Init ==
    /\ terminal \in { NewTerminal(s) : s \in Serials }
    /\ log = <<>>
    /\ now = 1
    /\ last = [op |-> "create", args |-> <<>>, pre |-> terminal, exc |-> "",
               ret |-> "None", rows |-> 0, calls |-> <<>>]
    /\ exists = TRUE
    /\ callers = NotCalling

\* the handler run storing its rows the way they are displayed, the most
\* recent first
Handle_MostRecentFirst(op, args, r) ==
    /\ exists /\ exists' = exists
    /\ callers' = callers
    /\ terminal' = r.t
    /\ log' = r.rows \o log
    /\ now' = IF r.t.last_ping # terminal.last_ping THEN now + 1 ELSE now
    /\ last' = [op |-> op, args |-> args, pre |-> terminal, exc |-> r.exc,
                ret |-> r.ret, rows |-> Len(r.rows), calls |-> r.calls]

\* handler op, given the inputs args, has run as r describes
Handle(op, args, r) ==
    /\ exists /\ exists' = exists
    /\ callers' = callers
    /\ terminal' = r.t
    /\ log' = log \o r.rows
    /\ now' = IF r.t.last_ping # terminal.last_ping THEN now + 1 ELSE now
    /\ last' = [op |-> op, args |-> args, pre |-> terminal, exc |-> r.exc,
                ret |-> r.ret, rows |-> Len(r.rows), calls |-> r.calls]

MayDispatch == Len(log) < MaxLog
MayReadClock == now <= MaxTime

Succeeded(resp) == resp.kind = "response" /\ resp.status_code \in {200, 201}

TestConnection ==
    /\ MayDispatch /\ MayReadClock
    /\ \E r1 \in (IF terminal.api_token # ""
                  THEN Responses(MerchantBodies) ELSE {NoResponse}) :
       \E r2 \in (IF terminal.api_token # "" /\ Succeeded(r1)
                  THEN Responses(DeviceBodies) ELSE {NoResponse}) :
       \E r3 \in (IF r2 # NoResponse /\ Succeeded(r2)
                  THEN Responses(PingBodies) ELSE {NoResponse}) :
          Handle("action_test_connection", <<r1, r2, r3>>,
                 action_test_connection(terminal, now, r1, r2, r3))

Activate == Handle("action_activate", <<>>, action_activate(terminal))

Deactivate == Handle("action_deactivate", <<>>, action_deactivate(terminal))

ResetDraft == Handle("action_reset_draft", <<>>, action_reset_draft(terminal))

PingDevice ==
    /\ MayDispatch /\ MayReadClock
    /\ \E resp \in Responses(PingBodies) :
          Handle("ping_device_connect", <<resp>>,
                 ping_device_connect(terminal, now, resp))

ResetDevice ==
    /\ MayDispatch
    /\ \E resp \in Responses(PingBodies) :
          Handle("reset_device", <<resp>>, reset_device(terminal, resp))

CheckDeviceOnline ==
    /\ MayDispatch /\ MayReadClock
    /\ \E resp \in Responses(PingBodies) :
          Handle("check_device_online", <<resp>>,
                 check_device_online(terminal, now, resp))

OAuthCallback ==
    /\ MayDispatch
    /\ \E code \in Codes, merchant_id \in MerchantIds :
       \E resp \in (IF code # <<>> /\ merchant_id = terminal.merchant_id
                    THEN Responses(OAuthBodies) ELSE {NoResponse}) :
          Handle("oauth_callback", <<resp, code, merchant_id>>,
                 oauth_callback(terminal, code, merchant_id, resp))

\* terminal_id is ondelete='set null': deleting the terminal leaves its
\* rows in place and empties their reference
SetNull(row) == [row EXCEPT !.terminal_id = Null]

\* unlink() of the terminal
Unlink ==
    /\ exists /\ exists' = FALSE
    /\ log' = [i \in 1..Len(log) |-> SetNull(log[i])]
    /\ last' = [op |-> "unlink", args |-> <<>>, pre |-> terminal, exc |-> "",
                ret |-> "None", rows |-> 0, calls |-> <<>>]
    /\ UNCHANGED <<terminal, now, callers>>

Next ==
    \/ TestConnection
    \/ Activate
    \/ Deactivate
    \/ ResetDraft
    \/ PingDevice
    \/ ResetDevice
    \/ CheckDeviceOnline
    \/ OAuthCallback
    \/ Unlink

Spec == Init /\ [][Next]_vars

---------------------------------------------------------------------------
(* One handler run on any stored record.  The handlers read nothing but    *)
(* the record and the remote answers, so each is a function of the two;    *)
(* here the record is drawn from every combination of field values, also   *)
(* those that take a longer history than MaxLog allows to build.           *)

StoredRecords ==
    { [NewTerminal(serial) EXCEPT
           !.state = st, !.api_token = tok, !.clover_device_id = dev[1],
           !.device_model = dev[2], !.merchant_name = dev[3],
           !.last_ping = ping, !.last_error = err] :
        serial \in Serials, st \in States, tok \in {"", "tok1"},
        dev \in { <<"", "", "">>, <<"dev-1", "Flex", "Acme">> },
        ping \in {0, 1}, err \in {"", MsgTimeout} }

InitStored ==
    /\ terminal \in StoredRecords
    /\ log = <<>>
    /\ now = 2
    /\ last = [op |-> "stored", args |-> <<>>, pre |-> terminal, exc |-> "",
               ret |-> "None", rows |-> 0, calls |-> <<>>]
    /\ exists = TRUE
    /\ callers = NotCalling

Fresh == last.op = "stored"

NextOnce ==
    \/ Fresh /\ TestConnection
    \/ Fresh /\ Activate
    \/ Fresh /\ Deactivate
    \/ Fresh /\ ResetDraft
    \/ Fresh /\ PingDevice
    \/ Fresh /\ ResetDevice
    \/ Fresh /\ CheckDeviceOnline
    \/ Fresh /\ OAuthCallback
    \/ Fresh /\ Unlink

SpecStored == InitStored /\ [][NextOnce]_vars

---------------------------------------------------------------------------
(* Two calls of action_test_connection on one stored record, run statement *)
(* by statement.  The handler takes no lock and reads and writes the       *)
(* record as it goes, so the steps of the two calls interleave freely.     *)
(* Each dispatch and each write() is one step.                             *)

\* the remote answers drawn here: a 200 with each body, or a timeout
RaceAnswers(bodies) ==
    { r \in Responses(bodies) :
        \/ r.kind = "Timeout"
        \/ r.kind = "response" /\ r.status_code = 200 }

\* caller c moves on as next describes, leaving the record as t, with rows
\* appended to the log and the clock at clock
RaceStep(c, next, t, rows, clock) ==
    /\ exists /\ exists' = exists
    /\ callers' = [callers EXCEPT ![c] = next]
    /\ terminal' = t
    /\ log' = log \o rows
    /\ now' = clock
    /\ last' = [op |-> "action_test_connection", args |-> <<c>>,
                pre |-> terminal, exc |-> next.exc, ret |-> next.pc,
                rows |-> Len(rows), calls |-> <<>>]

\* if not self.api_token: raise
RaceCall(c) ==
    /\ callers[c].pc = "idle"
    /\ RaceStep(c, IF terminal.api_token = ""
                   THEN [callers[c] EXCEPT !.pc = "raised", !.exc = MsgNoToken]
                   ELSE [callers[c] EXCEPT !.pc = "lookup"],
                terminal, <<>>, now)

\* step 1: the merchant lookup
RaceLookup(c) ==
    /\ callers[c].pc = "lookup"
    /\ \E r1 \in RaceAnswers(MerchantBodies) :
          LET merchant == api_request(terminal, "GET", EpMerchant, FALSE,
                                      "", r1)
          IN  RaceStep(c, IF merchant.exc # ""
                          THEN [callers[c] EXCEPT !.pc = "failed",
                                                  !.exc = merchant.exc]
                          ELSE [callers[c] EXCEPT
                                   !.pc = "listing",
                                   !.merchant_name =
                                       IF merchant.body.name = Missing
                                       THEN "?" ELSE merchant.body.name],
                       terminal, merchant.rows, now)

\* step 2: the device resolution
RaceListing(c) ==
    /\ callers[c].pc = "listing"
    /\ \E r2 \in RaceAnswers(DeviceBodies) :
          LET device == resolve_device_by_serial(terminal, r2)
          IN  RaceStep(c, IF device.exc # ""
                          THEN [callers[c] EXCEPT !.pc = "failed",
                                                  !.exc = device.exc]
                          ELSE [callers[c] EXCEPT !.pc = "store",
                                                  !.device = device.dev],
                       terminal, device.rows, now)

\* self.write({'merchant_name': ..., 'clover_device_id': ...,
\* 'device_model': ...})
RaceStore(c) ==
    /\ callers[c].pc = "store"
    /\ LET device == callers[c].device
       IN  RaceStep(c, [callers[c] EXCEPT !.pc = "ping"],
                    [terminal EXCEPT
                        !.merchant_name = callers[c].merchant_name,
                        !.clover_device_id = Stored(device.id),
                        !.device_model =
                            IF device.productName # Missing
                            THEN device.productName
                            ELSE Stored(device.model)],
                    <<>>, now)

\* step 3: the ping, whose UserError is caught
RacePing(c) ==
    /\ callers[c].pc = "ping"
    /\ \E r3 \in RaceAnswers(PingBodies) :
          LET ping == ping_device_connect(terminal, now, r3)
          IN  RaceStep(c, [callers[c] EXCEPT !.pc = "finish",
                                             !.ping_ok = ping.exc = "",
                                             !.ping_error = ping.exc],
                       ping.t, ping.rows,
                       IF ping.exc = "" THEN now + 1 ELSE now)

\* self.write(write_vals) and the return
RaceFinish(c) ==
    /\ callers[c].pc = "finish"
    /\ LET ping_ok == callers[c].ping_ok
       IN  RaceStep(c, [callers[c] EXCEPT !.pc = "returned"],
                    [terminal EXCEPT
                        !.state = "testing",
                        !.last_error = IF ping_ok THEN ""
                                       ELSE callers[c].ping_error,
                        !.last_ping = IF ping_ok THEN now ELSE @],
                    <<>>, IF ping_ok THEN now + 1 ELSE now)

\* the failure write giving way to a state another call has stored
RaceFail_GivesWay(c) ==
    /\ callers[c].pc = "failed"
    /\ RaceStep(c, [callers[c] EXCEPT !.pc = "raised"],
                IF terminal.state = "testing" THEN terminal
                ELSE TestFailed(terminal, callers[c].exc, <<>>, <<>>).t,
                <<>>, now)

\* except UserError as exc: self.write({'state': 'error', ...}); raise
RaceFail(c) ==
    /\ callers[c].pc = "failed"
    /\ RaceStep(c, [callers[c] EXCEPT !.pc = "raised"],
                TestFailed(terminal, callers[c].exc, <<>>, <<>>).t,
                <<>>, now)

\* the record the two calls run on holds a token and is a draft or active
InitRace ==
    /\ terminal \in { t \in StoredRecords :
                         /\ t.api_token # "" /\ t.device_serial # ""
                         /\ t.state \in {"draft", "active"} }
    /\ log = <<>>
    /\ now = 2
    /\ last = [op |-> "stored", args |-> <<>>, pre |-> terminal, exc |-> "",
               ret |-> "None", rows |-> 0, calls |-> <<>>]
    /\ exists = TRUE
    /\ callers = NotCalling

NextRace ==
    \/ \E c \in Callers : RaceCall(c)
    \/ \E c \in Callers : RaceLookup(c)
    \/ \E c \in Callers : RaceListing(c)
    \/ \E c \in Callers : RaceStore(c)
    \/ \E c \in Callers : RacePing(c)
    \/ \E c \in Callers : RaceFinish(c)
    \/ \E c \in Callers : RaceFail(c)

SpecRace == InitRace /\ [][NextRace]_vars

---------------------------------------------------------------------------
(* Properties.  `last` tells which handler ran last, on which record       *)
(* (last.pre), with which remote answers (last.args) and to what effect.   *)

Ran(op) == last.op = op

\* the row the last handler run appended last
LastRow == log[Len(log)]

\* the last handler run made exactly one call of _api_request: reset_device
\* always does, ping_device_connect does once its token check has passed
DispatchedOnce ==
    \/ Ran("reset_device")
    \/ Ran("ping_device_connect") /\ last.pre.api_token # ""

\* the message the dispatcher is to raise for a remote answer that is no
\* success (section 4.1 of the specification)
FailureMessage(resp) ==
    CASE resp.kind = "response"        -> ApiErrorMsg(resp.status_code)
      [] resp.kind = "Timeout"         -> MsgTimeout
      [] resp.kind = "ConnectionError" -> MsgUnreachable
      [] OTHER                         -> MsgUnknown

\* the device listing resp holds an element with this serial
Lists(resp, serial) ==
    \E i \in 1..Len(resp.body.elements) : resp.body.elements[i].serial = serial

\* the last run was a connection test with a token whose merchant lookup
\* failed / whose device listing failed / whose listing held no match /
\* which passed steps 1 and 2
TestRan == Ran("action_test_connection") /\ last.pre.api_token # ""
MerchantLookupFailed == TestRan /\ ~Succeeded(last.args[1])
ListingFailed ==
    TestRan /\ Succeeded(last.args[1]) /\ ~Succeeded(last.args[2])
NoDeviceMatched ==
    /\ TestRan /\ Succeeded(last.args[1]) /\ Succeeded(last.args[2])
    /\ ~Lists(last.args[2], last.pre.device_serial)
Steps12Passed ==
    /\ TestRan /\ Succeeded(last.args[1]) /\ Succeeded(last.args[2])
    /\ Lists(last.args[2], last.pre.device_serial)

\* C1: every call of the dispatcher, on every path (the failure to build
\* the headers included), appends exactly one audit row, whose status is
\* success, error or timeout.  Stated on the handlers that make exactly one
\* dispatcher call.
C1_OneRowPerDispatch ==
    DispatchedOnce =>
        /\ last.rows = 1
        /\ LastRow.status \in {"success", "error", "timeout"}

\* C2: state = active implies a non-empty access token and a non-empty
\* resolved device id.
C2_ActiveHasTokenAndDevice ==
    terminal.state = "active" =>
        terminal.api_token # "" /\ terminal.clover_device_id # ""

\* C3: a device-control dispatch on a record whose resolved device id is
\* empty raises 'device not resolved' and sends no HTTP request, whatever
\* the serial, the token and the RAID are.
C3_UnresolvedDeviceNotDispatched ==
    DispatchedOnce /\ last.pre.clover_device_id = "" =>
        last.exc = MsgSerialNotSet /\ last.calls = <<>>

\* C4: a connection test run with a token whose merchant lookup fails, or
\* whose device listing fails or holds no device with the serial, raises,
\* leaves state = error and last_error = the message of that failure,
\* whatever the state was before.
C4_TestFailureGoesToError ==
    /\ MerchantLookupFailed =>
           /\ last.exc = FailureMessage(last.args[1])
           /\ terminal.state = "error" /\ terminal.last_error = last.exc
    /\ ListingFailed =>
           /\ last.exc = FailureMessage(last.args[2])
           /\ terminal.state = "error" /\ terminal.last_error = last.exc
    /\ NoDeviceMatched =>
           /\ last.exc = MsgNoDevice
           /\ terminal.state = "error" /\ terminal.last_error = last.exc

\* a test on a record in state testing found no device with the serial and
\* left the record in error
C4_Witness ==
    /\ NoDeviceMatched /\ last.pre.state = "testing"
    /\ last.exc = MsgNoDevice /\ terminal.state = "error"

\* C5: a connection test that passes steps 1 and 2 returns (never raises)
\* and leaves state = testing; a failed ping stores its message in
\* last_error and leaves last_ping alone, a successful ping stores the time
\* of the call in last_ping and clears last_error.
C5_VerifiedGoesToTesting ==
    Steps12Passed =>
        /\ last.exc = ""
        /\ terminal.state = "testing"
        /\ IF Succeeded(last.args[3])
           THEN /\ terminal.last_ping = now - 1
                /\ terminal.last_ping > last.pre.last_ping
                /\ terminal.last_error = ""
           ELSE /\ terminal.last_error = FailureMessage(last.args[3])
                /\ terminal.last_ping = last.pre.last_ping

\* a test on a record in state error, with an older ping and an older
\* error stored, passed steps 1-2 and its ping timed out
C5_Witness ==
    /\ Steps12Passed /\ last.args[3].kind = "Timeout"
    /\ last.pre.state = "error" /\ last.pre.last_ping = 1
    /\ terminal.state = "testing" /\ terminal.last_error = MsgTimeout
    /\ terminal.last_ping = 1

\* C6: a connection test on a record with an empty token raises 'no token',
\* sends no HTTP request, writes no audit row and leaves every field of the
\* record as it was.
C6_NoTokenNoEffect ==
    Ran("action_test_connection") /\ last.pre.api_token = "" =>
        /\ last.exc = MsgNoToken
        /\ last.calls = <<>> /\ last.rows = 0
        /\ terminal = last.pre

\* a test on a token-less record in state testing with an error stored
C6_Witness ==
    /\ Ran("action_test_connection") /\ last.pre.api_token = ""
    /\ last.pre.state = "testing" /\ last.pre.last_error # ""
    /\ last.exc = MsgNoToken /\ terminal.state = "testing"

\* C7: activate succeeds exactly from testing, error and inactive, and then
\* sets state = active and clears last_error; from draft and from active it
\* raises 'test the connection first' and leaves the record as it was.
C7_ActivateGuard ==
    Ran("action_activate") =>
        IF last.pre.state \in {"testing", "error", "inactive"}
        THEN /\ last.exc = ""
             /\ terminal = [last.pre EXCEPT !.state = "active",
                                            !.last_error = ""]
        ELSE /\ last.exc = MsgTestFirst
             /\ terminal = last.pre

\* activate refused on a draft record
C7_Witness ==
    /\ Ran("action_activate") /\ last.pre.state = "draft"
    /\ last.exc = MsgTestFirst /\ terminal.state = "draft"

\* C8 as claimed: every step that enters the state inactive starts in the
\* state active.
C8_InactiveOnlyFromActive ==
    terminal.state = "inactive" /\ last.pre.state # "inactive" =>
        last.pre.state = "active"

\* C8 as amended: deactivate has no precondition, from every state it
\* returns and sets state = inactive and nothing else; and the state
\* inactive is entered by deactivate only.
C8_DeactivateUnconditional ==
    /\ Ran("action_deactivate") =>
           /\ last.exc = ""
           /\ terminal = [last.pre EXCEPT !.state = "inactive"]
    /\ terminal.state = "inactive" /\ last.pre.state # "inactive" =>
           Ran("action_deactivate")

\* deactivate took a draft record to inactive
C8_Witness ==
    /\ Ran("action_deactivate") /\ last.pre.state = "draft"
    /\ terminal.state = "inactive"

\* C9: ping_device_connect and reset_device run on a record that is still
\* not configured (state draft, no merchant and no device resolved yet)
\* send no device-control request.
C9_DraftNoDeviceControl ==
    /\ Ran("ping_device_connect") \/ Ran("reset_device")
    /\ last.pre.state = "draft"
    /\ last.pre.clover_device_id = "" /\ last.pre.merchant_name = ""
    => last.calls = <<>>

\* C10: check_device_online never raises; it returns False when the
\* resolved device id is empty, when the token is empty or when the ping
\* fails, and True only when the ping succeeded; with an empty token it
\* sends no request, writes no row and changes nothing.
C10_OnlineProbe ==
    Ran("check_device_online") =>
        /\ last.exc = ""
        /\ last.ret \in {"True", "False"}
        /\ (\/ last.pre.clover_device_id = ""
            \/ last.pre.api_token = ""
            \/ ~Succeeded(last.args[1])) => last.ret = "False"
        /\ last.ret = "True" => Succeeded(last.args[1])
        /\ last.pre.api_token = "" =>
               /\ last.calls = <<>> /\ last.rows = 0
               /\ terminal = last.pre

ExchangeSent == Ran("oauth_callback") /\ last.calls # <<>>
ExchangeGranted ==
    /\ ExchangeSent
    /\ last.args[1].kind = "response" /\ last.args[1].status_code = 200
    /\ last.args[1].body.access_token # Missing

\* C12: a token exchange answered 200 with an access_token sets the token
\* of the terminal to exactly that value and appends one audit row of
\* status success with endpoint "/oauth/token"; answered anything but 200,
\* or 200 without an access_token, it fails and leaves the token as it was.
C12_TokenExchange ==
    ExchangeSent =>
        IF ExchangeGranted
        THEN /\ last.exc = "" /\ last.ret = "terminal form"
             /\ terminal.api_token = last.args[1].body.access_token
             /\ last.rows = 1
             /\ LastRow.endpoint = EpOAuth /\ LastRow.status = "success"
        ELSE /\ last.ret # "terminal form"
             /\ terminal.api_token = last.pre.api_token

\* an exchange on a record that held an older token replaced it by the
\* one the endpoint answered with
C12_Witness ==
    /\ ExchangeGranted /\ last.pre.api_token = "tok1"
    /\ terminal.api_token = "tok2" /\ last.rows = 1
    /\ LastRow.endpoint = EpOAuth

\* C13: every token exchange whose request reaches the token endpoint
\* appends an audit row, also when the answer is not 200 or holds no
\* access_token.
C13_EveryExchangeLogged ==
    ExchangeSent /\ last.args[1].kind = "response" => last.rows = 1

\* the text s opens the text t
StartsWith(t, s) == Len(s) <= Len(t) /\ SubSeq(t, 1, Len(s)) = s

\* the values a row stores, the logged code apart
Stores(row) ==
    {row.request_payload.client_id, row.response_payload.access_token,
     row.response_payload.name, row.error_message}

\* C14: no audit row holds a secret: whatever the length of the
\* authorization code, the row of a token exchange stores a truncation of
\* the code and not the complete code, and no row stores the app secret or
\* an access token.
C14_NoSecretInAudit ==
    /\ \A i \in 1..Len(log) :
           Stores(log[i]) \cap ({terminal.app_secret, "tok1"} \cup Tokens) = {}
    /\ ExchangeGranted =>
           ~StartsWith(LastRow.request_payload.code, last.args[2])

\* C15: the device resolution takes the first element, in the order of the
\* listing, whose serial equals the configured serial (of two with the
\* serial the first wins); it fails with 'no device with serial' when no
\* element has it, an empty or absent list included, and only once the
\* listing request itself has succeeded: a failed listing raises the error
\* of that failure.
C15_ResolveFirstMatch ==
    /\ Steps12Passed =>
           \E i \in 1..Len(last.args[2].body.elements) :
              LET elements == last.args[2].body.elements
              IN  /\ elements[i].serial = last.pre.device_serial
                  /\ \A j \in 1..(i - 1) :
                         elements[j].serial # last.pre.device_serial
                  /\ terminal.clover_device_id = Stored(elements[i].id)
    /\ NoDeviceMatched =>
           /\ last.exc = MsgNoDevice
           /\ last.rows = 2 /\ LastRow.endpoint = EpDevices
           /\ LastRow.status = "success"
    /\ ListingFailed =>
           /\ last.exc # MsgNoDevice
           /\ LastRow.endpoint = EpDevices /\ LastRow.status # "success"

\* the listing held two devices with the serial and the first was taken
C15_Witness ==
    /\ Steps12Passed /\ last.args[2].body.elements = <<Dev1b, Dev1>>
    /\ terminal.clover_device_id = "dev-1b"

\* C16: action_reset_draft, from every state, sets state = draft and clears
\* last_error, and leaves the access token, the resolved device id, the
\* merchant name, the device model and last_ping (and every other field)
\* as they were.
C16_ResetDraftFrame ==
    Ran("action_reset_draft") =>
        /\ last.exc = ""
        /\ terminal = [last.pre EXCEPT !.state = "draft", !.last_error = ""]

\* a reset of an active record that held a token, a resolved device, a
\* ping time and an error
C16_Witness ==
    /\ Ran("action_reset_draft") /\ last.pre.state = "active"
    /\ last.pre.last_error # "" /\ terminal.last_error = ""
    /\ terminal.state = "draft" /\ terminal.api_token = "tok1"
    /\ terminal.clover_device_id = "dev-1" /\ terminal.last_ping = 1

\* the operations of the connectivity state machine
StateMachineOps ==
    {"action_test_connection", "action_activate", "action_deactivate",
     "action_reset_draft", "ping_device_connect", "reset_device",
     "check_device_online"}

\* C17: the token exchange never changes state or last_error, and no
\* operation of the state machine (test connection, activate, deactivate,
\* reset to draft, ping, reset device, online check) ever changes the
\* access token.
C17_FieldOwnership ==
    /\ Ran("oauth_callback") =>
           /\ terminal.state = last.pre.state
           /\ terminal.last_error = last.pre.last_error
    /\ last.op \in StateMachineOps =>
           terminal.api_token = last.pre.api_token

\* an exchange that stored a token on a record in state error left the
\* state and the stored error alone
C17_Witness ==
    /\ ExchangeGranted /\ terminal.api_token # last.pre.api_token
    /\ last.pre.state = "error" /\ last.pre.last_error # ""
    /\ terminal.state = "error" /\ terminal.last_error = last.pre.last_error

\* C18: every device-control request that is sent (ping, reset) carries the
\* resolved device id as X-Clover-Device-Id and the RAID as X-POS-Id; a
\* management request carries the bearer token and the JSON content
\* headers only; Idempotency-Key is there exactly when a key was supplied,
\* and no handler supplies one.
C18_RequestHeaders ==
    last.op \in StateMachineOps =>
        \A i \in 1..Len(last.calls) :
           LET headers == last.calls[i].headers
           IN  /\ headers.Authorization = Bearer(terminal.api_token)
               /\ headers.ContentType = "application/json"
               /\ headers.Accept = "application/json"
               /\ headers.IdempotencyKey = Absent
               /\ IF last.calls[i].endpoint \in {EpPing, EpReset}
                  THEN /\ headers.XCloverDeviceId = terminal.clover_device_id
                       /\ headers.XPOSId = terminal.raid
                  ELSE /\ headers.XCloverDeviceId = Absent
                       /\ headers.XPOSId = Absent

\* C19: the audit log is append-only: no dispatch, token exchange or
\* state-machine operation changes or removes a row there is, so the log
\* before a step is a prefix of the log after it; deleting the terminal
\* removes no row and changes nothing of a row but its terminal reference,
\* which it empties.
C19_AppendOnly ==
    [][IF exists /\ ~exists'
       THEN /\ Len(log') = Len(log)
            /\ \A i \in 1..Len(log) :
                   log'[i] = [log[i] EXCEPT !.terminal_id = Null]
       ELSE /\ Len(log') >= Len(log)
            /\ SubSeq(log', 1, Len(log)) = log]_vars

\* a handler appended a row to a log that held rows already
C19_Witness ==
    /\ exists /\ last.rows > 0 /\ Len(log) > last.rows
    /\ log[Len(log)].terminal_id = TerminalId

\* the endpoints of the requests the last handler run sent, in order
CalledEndpoints == [i \in 1..Len(last.calls) |-> last.calls[i].endpoint]

\* the order of the calls of a connection test
TestOrder == <<EpMerchant, EpDevices, EpPing>>

\* C20: a connection test sends its requests in the order merchant lookup,
\* device listing, ping, each of the later ones only when all the earlier
\* ones succeeded: a failed merchant lookup is followed by no listing and
\* no ping, a failed listing or one without the device by no ping.  So a
\* test makes at most three dispatches, and it appends exactly one audit
\* row for each, in that order.
C20_TestCallOrder ==
    Ran("action_test_connection") =>
        /\ Len(last.calls) <= 3
        /\ CalledEndpoints = SubSeq(TestOrder, 1, Len(last.calls))
        /\ Len(last.calls) >= 2 => Succeeded(last.args[1])
        /\ Len(last.calls) = 3 =>
               /\ Succeeded(last.args[2])
               /\ Lists(last.args[2], last.pre.device_serial)
        /\ Steps12Passed => Len(last.calls) = 3
        /\ last.rows = Len(last.calls)
        /\ \A i \in 1..last.rows :
               log[Len(log) - last.rows + i].endpoint = CalledEndpoints[i]

\* a test whose merchant lookup was rejected made that one call and wrote
\* that one row
C20_Witness ==
    /\ MerchantLookupFailed /\ last.args[1].kind = "response"
    /\ CalledEndpoints = <<EpMerchant>>
    /\ last.rows = 1 /\ LastRow.endpoint = EpMerchant

\* C22: a standalone ping_device_connect whose dispatch succeeds stores the
\* time of the call in last_ping and changes no other field; one that fails
\* raises and leaves the record, last_ping, state and last_error included,
\* as it was.  reset_device and check_device_online never change state or
\* last_error either.
C22_StandalonePingFrame ==
    /\ Ran("ping_device_connect") =>
           IF /\ last.pre.api_token # "" /\ last.pre.device_serial # ""
              /\ Succeeded(last.args[1])
           THEN /\ last.exc = ""
                /\ terminal = [last.pre EXCEPT !.last_ping = now - 1]
                /\ terminal.last_ping > last.pre.last_ping
           ELSE /\ last.exc # "" /\ last.ret = "raised"
                /\ terminal = last.pre
    /\ Ran("reset_device") \/ Ran("check_device_online") =>
           /\ terminal.state = last.pre.state
           /\ terminal.last_error = last.pre.last_error

\* a ping of an active record without a stored error timed out and the
\* record is still active and without an error
C22_Witness ==
    /\ Ran("ping_device_connect") /\ last.args[1].kind = "Timeout"
    /\ last.exc = MsgTimeout /\ last.calls # <<>>
    /\ last.pre.state = "active" /\ last.pre.last_error = ""
    /\ terminal.state = "active" /\ terminal.last_error = ""

C24_RetestLeavesActive ==
    /\ TestRan /\ last.pre.state \in {"active", "inactive"} =>
           /\ terminal.state = (IF Steps12Passed THEN "testing" ELSE "error")
           /\ last.exc = "" <=> Steps12Passed
    /\ terminal.state = "active" /\ last.pre.state # "active" =>
           Ran("action_activate")

\* a test of an active record passed steps 1 and 2 and left it in testing
C24_Witness ==
    /\ Steps12Passed /\ last.pre.state = "active"
    /\ Succeeded(last.args[3]) /\ terminal.state = "testing"

\* C25: a connection test that fails at step 1 or at step 2 writes state
\* and last_error only: merchant_name, clover_device_id, device_model and
\* last_ping keep the values they had; the merchant name of a lookup that
\* succeeded is not stored when the device resolution fails, and a device
\* id resolved earlier is not cleared.
C25_FailedTestWritesTwoFields ==
    MerchantLookupFailed \/ ListingFailed \/ NoDeviceMatched =>
        terminal = [last.pre EXCEPT !.state = "error",
                                    !.last_error = last.exc]

\* the merchant lookup of a test succeeded, with another name than the one
\* stored, and no device matched: the stored name and the device id
\* resolved earlier are still there
C25_Witness ==
    /\ NoDeviceMatched /\ last.args[1].body.name = Missing
    /\ last.pre.merchant_name = "Acme" /\ terminal.merchant_name = "Acme"
    /\ last.pre.clover_device_id = "dev-1"
    /\ terminal.clover_device_id = "dev-1" /\ terminal.state = "error"

\* both calls of action_test_connection are over: each returned or raised
BothOver == \A c \in Callers : callers[c].pc \in {"returned", "raised"}

\* the call that took the last step: when both are over, the one whose
\* final write() came last
LastWriter == last.args[1]

\* C21: two calls of action_test_connection on one record are not
\* serialized, their requests and writes interleave; once both are over,
\* state and last_error are those of the call whose final write came
\* last, whatever the other call found: error and its message when that
\* call failed at step 1 or 2, testing and its ping error when it passed
\* them.
C21_LastWriteWins ==
    BothOver =>
        IF callers[LastWriter].pc = "raised"
        THEN /\ terminal.state = "error"
             /\ terminal.last_error = callers[LastWriter].exc
        ELSE /\ terminal.state = "testing"
             /\ terminal.last_error = callers[LastWriter].ping_error

\* both calls are over; B passed steps 1 and 2, stored the device and a
\* ping time and returned; A failed at step 1 and wrote last: the record is
\* in error with A's message and holds B's device and B's ping time
C21_Witness ==
    /\ BothOver /\ LastWriter = "A"
    /\ callers["A"].pc = "raised" /\ callers["A"].exc = MsgTimeout
    /\ callers["B"].pc = "returned" /\ callers["B"].ping_ok
    /\ terminal.state = "error" /\ terminal.last_error = MsgTimeout
    /\ terminal.clover_device_id = "dev-1b"
    /\ terminal.last_ping > 1 /\ last.pre.state = "testing"
    /\ Len(log) = 4

===========================================================================
